---- MODULE Spec2Model ----
(***************************************************************************)
(* Framed JPEG streaming over a serial byte stream.                        *)
(*   rpi_screen_sender.py   : ScreenSender (worker thread sender_loop,     *)
(*                            start/stop), SenderGUI.toggle_sending        *)
(*   pc_screen_receiver.py  : FrameReceiverThread (run/stop), MainWindow   *)
(*                            (toggle_connection, handle_error, ...)       *)
(* The serial link is the byte sequence tx written by the sender; the      *)
(* receiver has consumed its first rpos bytes.  A serial read(n) returns   *)
(* n bytes, or fewer when its 1 s timeout elapses before n bytes arrived.  *)
(***************************************************************************)
EXTENDS Integers, Sequences, FiniteSets, TLC

\* ---- bounds of the model ------------------------------------------------
MaxLen == 2       \* longest payload (JPEG byte string) the capture produces
MaxByte == 1      \* payload bytes range over 0..MaxByte
MaxTx == 10       \* bytes written to the port in one behaviour
MaxWorkers == 2   \* sender worker threads started in one behaviour
MaxThreads == 2   \* FrameReceiverThread objects created in one behaviour
WireCap == 6      \* bytes the link buffers between a write and the reads
TicksPerFrame == 2 \* resolution of the clock: ticks in one frame interval
MaxSeconds == 3   \* seconds the clock is followed for

\* ---- constants of the program, in clock ticks ------------------------------
TARGET_FPS == 15                          \* rpi_screen_sender.py line 47
FRAME_INTERVAL == TicksPerFrame           \* line 48: 1.0 / TARGET_FPS seconds
OneSecond == TARGET_FPS * FRAME_INTERVAL  \* the 1.0 of receiver line 81
MaxTime == MaxSeconds * OneSecond

Bytes == 0..MaxByte
Payloads == UNION {[1..n -> Bytes] : n \in 0..MaxLen}
Workers == 1..MaxWorkers
RThreads == 1..MaxThreads

Min(a, b) == IF a < b THEN a ELSE b
Max(a, b) == IF a > b THEN a ELSE b

VARIABLES
    \* ---- sender (rpi_screen_sender.py) ----
    running,          \* ScreenSender.running
    thread,           \* ScreenSender.thread: worker id, 0 = None
    wk,               \* per worker: position in sender_loop, its ser handle, jpeg_bytes
    frames_sent,      \* ScreenSender.frames_sent
    c_pc,             \* sender GUI thread: "idle", or "joining" inside stop()
    nstarted,         \* number of threading.Thread objects started so far
    \* ---- serial link ----
    tx,               \* every byte written to the port, in order
    sent,             \* payloads whose envelope the sender began to write, in order
    rpos,             \* number of bytes of tx the receiving side has read
    \* ---- receiver (pc_screen_receiver.py) ----
    rt,               \* per FrameReceiverThread: position in run(), fields, locals
    receiver_thread,  \* MainWindow.receiver_thread: thread id, 0 = None
    g_pc,             \* receiver GUI thread: "idle"; "waiting" or "closing" inside
                      \* stop(); "closed" once the window is closed
    nthreads,         \* number of FrameReceiverThread objects created so far
    errq,             \* error_occurred signals queued for MainWindow.handle_error
    handed,           \* payloads passed the length check of line 69, in order
    frames_out,       \* frame_received signals emitted, in order
    fps_out,          \* fps_update signals emitted, in order
    displayed,        \* number of frame_received signals update_frame has handled
    \* ---- time ----
    s_now,            \* time.time() on the sending machine, in ticks
    r_now             \* time.time() on the receiving machine, in ticks

svars == <<running, thread, wk, frames_sent, c_pc, nstarted>>
lvars == <<tx, sent>>
tvars == <<s_now, r_now>>
rvars == <<rt, receiver_thread, g_pc, nthreads, errq, handed, frames_out, fps_out,
           displayed, rpos>>
vars == <<running, thread, wk, frames_sent, c_pc, nstarted, tx, sent, rpos,
          rt, receiver_thread, g_pc, nthreads, errq, handed, frames_out, fps_out,
          displayed, s_now, r_now>>

\* bytes written and not yet read
wire == SubSeq(tx, rpos + 1, Len(tx))

\* serial_conn.write(data) has no write timeout (line 106): it returns once the
\* link has taken all of data, and blocks while the peer leaves the buffers full
CanWrite(data) == Len(wire) + Len(data) <= WireCap

\* ---- frame codec ----------------------------------------------------------
\* the length packed least significant byte first ('<I')
pack_little_endian(n) == << n % 256, (n \div 256) % 256,
                            (n \div 65536) % 256, (n \div 16777216) % 256 >>

\* struct.pack('>I', n): 4 bytes, most significant first
pack(n) == << (n \div 16777216) % 256, (n \div 65536) % 256,
              (n \div 256) % 256, n % 256 >>

\* struct.unpack('>I', b)[0]
unpack(b) == b[1] * 16777216 + b[2] * 65536 + b[3] * 256 + b[4]

\* ---- sender worker: ScreenSender.sender_loop ---------------------------------
\* frame_start is the local of line 121 (-1: not yet assigned)
NewWorker == [pc |-> "unborn", ser |-> "none", jpeg |-> <<>>, frame_start |-> -1]

SetW(w, r) == wk' = [wk EXCEPT ![w] = r]

\* bytes that the workers inside compress_and_send_frame have still to write
PendingOf(w) == IF wk[w].pc = "write_hdr" THEN 4 + Len(wk[w].jpeg)
                ELSE IF wk[w].pc = "write_payload" THEN Len(wk[w].jpeg)
                ELSE 0

RECURSIVE PendingUpTo(_)
PendingUpTo(n) == IF n = 0 THEN 0 ELSE PendingOf(n) + PendingUpTo(n - 1)

Pending == PendingUpTo(MaxWorkers)

\* lines 105-107, 116-117: serial.Serial(...) succeeds
SOpenOk(w) ==
    /\ wk[w].pc = "open"
    /\ SetW(w, [wk[w] EXCEPT !.pc = "loop", !.ser = "open"])
    /\ frames_sent' = 0
    /\ UNCHANGED <<running, thread, c_pc, nstarted, lvars, rvars, tvars>>

\* lines 108-114: serial.Serial(...) raises SerialException; report and return
SOpenFail(w) ==
    /\ wk[w].pc = "open"
    /\ SetW(w, [wk[w] EXCEPT !.pc = "done"])
    /\ UNCHANGED <<running, thread, frames_sent, c_pc, nstarted, lvars, rvars, tvars>>

\* lines 120-121: while self.running; frame_start = time.time()
SLoop(w) ==
    /\ wk[w].pc = "loop"
    /\ SetW(w, IF running
               THEN [wk[w] EXCEPT !.pc = "capture", !.frame_start = s_now]
               ELSE [wk[w] EXCEPT !.pc = "finally"])
    /\ UNCHANGED <<running, thread, frames_sent, c_pc, nstarted, lvars, rvars, tvars>>

\* lines 121-127, 79-88: capture the screen, compress to jpeg_bytes; the
\* screen shows one of the images
SCapture(w, images) ==
    /\ wk[w].pc = "capture"
    /\ \E p \in images :
         /\ Len(tx) + Pending + 4 + Len(p) <= MaxTx
         /\ SetW(w, [wk[w] EXCEPT !.pc = "write_hdr", !.jpeg = p])
    /\ UNCHANGED <<running, thread, frames_sent, c_pc, nstarted, lvars, rvars, tvars>>

\* lines 88-92: size_bytes = struct.pack('>I', data_size); serial_conn.write(size_bytes)
SWriteHdr(w) ==
    /\ wk[w].pc = "write_hdr"
    /\ CanWrite(pack(Len(wk[w].jpeg)))
    /\ tx' = tx \o pack(Len(wk[w].jpeg))
    /\ sent' = Append(sent, wk[w].jpeg)
    /\ SetW(w, [wk[w] EXCEPT !.pc = "write_payload"])
    /\ UNCHANGED <<running, thread, frames_sent, c_pc, nstarted, rvars, tvars>>

\* line 95: serial_conn.write(jpeg_bytes)
SWritePayload(w) ==
    /\ wk[w].pc = "write_payload"
    /\ CanWrite(wk[w].jpeg)
    /\ tx' = tx \o wk[w].jpeg
    /\ SetW(w, [wk[w] EXCEPT !.pc = "flush"])
    /\ UNCHANGED <<running, thread, frames_sent, c_pc, nstarted, sent, rvars, tvars>>

\* a pacer that sleeps the whole interval whatever the cycle took
sleep_time_whole_interval(process_time) == FRAME_INTERVAL

\* line 144: sleep_time = max(0, FRAME_INTERVAL - process_time)
sleep_time(process_time) == Max(0, FRAME_INTERVAL - process_time)

\* lines 96, 132-146: serial_conn.flush(); count the frame; process_time =
\* time.time() - frame_start; time.sleep(sleep_time) when sleep_time > 0: the
\* call returns when that much time has passed
SFlush(w) ==
    /\ wk[w].pc = "flush"
    /\ frames_sent' = frames_sent + 1
    /\ LET process_time == s_now - wk[w].frame_start IN
         s_now' = IF sleep_time(process_time) > 0
                  THEN s_now + sleep_time(process_time) ELSE s_now
    /\ SetW(w, [wk[w] EXCEPT !.pc = "loop"])
    /\ UNCHANGED <<running, thread, c_pc, nstarted, lvars, rvars, r_now>>

\* a failure that is reported and after which the loop goes on
SFail_keeps_sending(w) ==
    /\ wk[w].pc \in {"capture", "write_hdr", "write_payload", "flush"}
    /\ SetW(w, [wk[w] EXCEPT !.pc = "loop"])
    /\ UNCHANGED <<running, thread, frames_sent, c_pc, nstarted, lvars, rvars, tvars>>

\* lines 148-152: the capture, a write or the flush raises; the handler reports it
SFail(w) ==
    /\ wk[w].pc \in {"capture", "write_hdr", "write_payload", "flush"}
    /\ SetW(w, [wk[w] EXCEPT !.pc = "finally"])
    /\ UNCHANGED <<running, thread, frames_sent, c_pc, nstarted, lvars, rvars, tvars>>

\* a finally clause that clears running and leaves the port as it is
SFinally_port_left_open(w) ==
    /\ wk[w].pc = "finally"
    /\ SetW(w, [wk[w] EXCEPT !.pc = "done"])
    /\ running' = FALSE
    /\ UNCHANGED <<thread, frames_sent, c_pc, nstarted, lvars, rvars, tvars>>

\* lines 153-159: close the port, self.running = False
SFinally(w) ==
    /\ wk[w].pc = "finally"
    /\ SetW(w, [wk[w] EXCEPT !.pc = "done",
                             !.ser = IF @ = "open" THEN "closed" ELSE @])
    /\ running' = FALSE
    /\ UNCHANGED <<thread, frames_sent, c_pc, nstarted, lvars, rvars, tvars>>

\* the host side reads what the link holds (serial_port.read, receiver lines
\* 51 and 63)
HostRead ==
    /\ wire # <<>>
    /\ rpos' = Len(tx)
    /\ UNCHANGED <<svars, lvars, rt, receiver_thread, g_pc, nthreads, errq, handed,
                   frames_out, fps_out, displayed, tvars>>

\* ---- sender controller: ScreenSender.start / stop, SenderGUI.toggle_sending --
\* lines 161-169
start ==
    IF running
    THEN UNCHANGED <<running, thread, wk, nstarted, c_pc>>
    ELSE /\ running' = TRUE
         /\ nstarted' = nstarted + 1
         /\ thread' = nstarted + 1
         /\ SetW(nstarted + 1, [NewWorker EXCEPT !.pc = "open"])
         /\ UNCHANGED c_pc

\* lines 173-175: self.running = False, then enter thread.join(timeout=1.0)
stop ==
    /\ running' = FALSE
    /\ c_pc' = IF thread # 0 THEN "joining" ELSE c_pc
    /\ UNCHANGED <<thread, wk, nstarted>>

\* lines 273-280
toggle_sending ==
    /\ c_pc = "idle"
    /\ IF running THEN stop ELSE nstarted < MaxWorkers /\ start
    /\ UNCHANGED <<frames_sent, lvars, rvars, tvars>>

\* the calls of sender_loop that block for an unbounded time (no timeout is set
\* on the port, line 106; the capture and the JPEG encoder take what they take)
SBlocking == {"open", "capture", "write_hdr", "write_payload", "flush"}

\* thread.join(timeout=1.0) returns: the worker ended, or one second passed
JoinReturns(w) == wk[w].pc = "done" \/ wk[w].pc \in SBlocking

\* lines 175-176: join returns, self.thread = None
StopJoin ==
    /\ c_pc = "joining"
    /\ JoinReturns(thread)
    /\ thread' = 0
    /\ c_pc' = "idle"
    /\ UNCHANGED <<running, wk, frames_sent, nstarted, lvars, rvars, tvars>>

\* ---- receiver worker: FrameReceiverThread.run ------------------------------
\* fields running, serial_port (lines 36-37) and the locals of run();
\* hstart and hpos are the stream offsets at which the thread began to wait
\* for the current header and at which it read the header it decoded
NewThread == [pc |-> "unborn", running |-> FALSE, port |-> "none",
              frame_size |-> 0, jpeg_data |-> <<>>, remaining |-> 0,
              frames_received |-> 0, hstart |-> 0, hpos |-> 0,
              start_time |-> 0, last_fps_update |-> 0]

SetT(t, r) == rt' = [rt EXCEPT ![t] = r]

\* line 63: the chunk size asked from the port
ChunkSize(remaining) == Min(remaining, 4096)

\* line 52: the header read came back short
ShortHeader(size_bytes) == Len(size_bytes) < 4

\* line 64: the chunk read came back empty
EmptyChunk(chunk) == chunk = <<>>

\* line 62: the payload loop goes on
MorePayload(r) == r.remaining > 0 /\ r.running

\* a length check that lets a payload cut short by a timeout through
FrameComplete_at_most(data, size) == Len(data) <= size

\* line 69: the payload is complete
FrameComplete(data, size) == Len(data) = size

\* line 72: Image.open accepts the bytes (they begin with an image signature)
ValidImage(data) == Len(data) > 0 /\ data[1] # 0

\* serial_port.read(n) with timeout=1 (line 42): n bytes, or on timeout the
\* k < n bytes that arrived
ReadCounts(n) == {k \in 0..Min(n, Len(wire)) : k = n \/ k < n}

\* a run() that returns without closing its port
LeaveRun_port_left_open(r) == [r EXCEPT !.pc = "done"]

\* lines 93-95, the finally clause: close the port if it is open; run() returns
LeaveRun(r) == [r EXCEPT !.pc = "done", !.port = IF @ = "open" THEN "closed" ELSE @]

\* line 42: serial.Serial(...) succeeds
ROpenOk(t) ==
    /\ rt[t].pc = "open"
    /\ SetT(t, [rt[t] EXCEPT !.pc = "set_running", !.port = "open"])
    /\ UNCHANGED <<receiver_thread, g_pc, nthreads, errq, handed, frames_out, fps_out, rpos,
                   svars, lvars, displayed, tvars>>

\* lines 42, 89-95: serial.Serial(...) raises SerialException; the handler
\* emits error_occurred("Serial error: ...")
ROpenFail(t) ==
    /\ rt[t].pc = "open"
    /\ SetT(t, LeaveRun(rt[t]))
    /\ errq' = Append(errq, "Serial error")
    /\ UNCHANGED <<receiver_thread, g_pc, nthreads, handed, frames_out, fps_out, rpos,
                   svars, lvars, displayed, tvars>>

\* lines 43-47: self.running = True, counters start
RSetRunning(t) ==
    /\ rt[t].pc = "set_running"
    /\ SetT(t, [rt[t] EXCEPT !.pc = "loop", !.running = TRUE,
                             !.frames_received = 0, !.hstart = rpos,
                             !.start_time = r_now, !.last_fps_update = r_now])
    /\ UNCHANGED <<receiver_thread, g_pc, nthreads, errq, handed, frames_out, fps_out, rpos,
                   svars, lvars, displayed, tvars>>

\* line 49: while self.running; when it is false the loop ends (lines 93-95)
RLoop(t) ==
    /\ rt[t].pc = "loop"
    /\ SetT(t, IF rt[t].running THEN [rt[t] EXCEPT !.pc = "read_hdr"]
                                ELSE LeaveRun(rt[t]))
    /\ UNCHANGED <<receiver_thread, g_pc, nthreads, errq, handed, frames_out, fps_out, rpos,
                   svars, lvars, displayed, tvars>>

\* a rate sample with every frame
SampleDue_every_frame(r, current_time) == TRUE

\* line 81: a rate sample is due
SampleDue(r, current_time) == current_time - r.last_fps_update >= OneSecond

\* lines 78, 82: fps = frames_received / elapsed with elapsed = current_time -
\* start_time, kept as the pair (frames, elapsed)
fps(r, current_time) ==
    [frames |-> r.frames_received, elapsed |-> current_time - r.start_time]

\* lines 69-87, entered with the locals r when the payload loop is left:
\* a complete payload is decoded, emitted as frame_received and counted, and
\* when a second or more passed since the last sample fps_update is emitted
\* (fps_out keeps the value with the emitting thread, the time of the emission
\* and the number of frames emitted so far);
\* when the decoder raises, error_occurred("Error processing frame: ...") is
\* emitted; then back to line 49
AfterPayload(t, r) ==
    IF FrameComplete(r.jpeg_data, r.frame_size)
    THEN /\ handed' = Append(handed, [pos |-> r.hpos, size |-> r.frame_size,
                                      data |-> r.jpeg_data])
         /\ IF ValidImage(r.jpeg_data)
            THEN LET c == [r EXCEPT !.frames_received = @ + 1] IN
                 /\ frames_out' = Append(frames_out, [pos |-> r.hpos,
                                                      data |-> r.jpeg_data])
                 /\ IF SampleDue(c, r_now)
                    THEN /\ fps_out' = Append(fps_out,
                                 [thread |-> t, fps |-> fps(c, r_now), at |-> r_now,
                                  seq |-> Len(frames_out')])
                         /\ SetT(t, [c EXCEPT !.pc = "loop", !.hstart = rpos',
                                              !.last_fps_update = r_now])
                    ELSE /\ SetT(t, [c EXCEPT !.pc = "loop", !.hstart = rpos'])
                         /\ UNCHANGED fps_out
                 /\ UNCHANGED errq
            ELSE /\ errq' = Append(errq, "Error processing frame")
                 /\ SetT(t, [r EXCEPT !.pc = "loop", !.hstart = rpos'])
                 /\ UNCHANGED <<frames_out, fps_out>>
    ELSE /\ SetT(t, [r EXCEPT !.pc = "loop", !.hstart = rpos'])
         /\ UNCHANGED <<handed, frames_out, fps_out, errq>>

\* line 62, entered with the locals r: next chunk, or leave the payload loop
PayloadLoop(t, r) ==
    IF MorePayload(r)
    THEN /\ SetT(t, [r EXCEPT !.pc = "read_chunk"])
         /\ UNCHANGED <<handed, frames_out, fps_out, errq>>
    ELSE AfterPayload(t, r)

\* lines 51-62: read(4); fewer than 4 bytes: continue; else unpack the size
\* and enter the payload loop
RReadHdr(t) ==
    /\ rt[t].pc = "read_hdr"
    /\ \E k \in ReadCounts(4) :
         LET size_bytes == SubSeq(wire, 1, k) IN
         /\ rpos' = rpos + k
         /\ IF ShortHeader(size_bytes)
            THEN /\ SetT(t, [rt[t] EXCEPT !.pc = "loop"])
                 /\ UNCHANGED <<handed, frames_out, fps_out, errq>>
            ELSE PayloadLoop(t, [rt[t] EXCEPT !.frame_size = unpack(size_bytes),
                                              !.jpeg_data = <<>>,
                                              !.remaining = unpack(size_bytes),
                                              !.hpos = rpos])
    /\ UNCHANGED <<receiver_thread, g_pc, nthreads, svars, lvars, displayed, tvars>>

\* lines 63-69: read a chunk; empty chunk: break; else extend jpeg_data and
\* go round the payload loop
RReadChunk(t) ==
    /\ rt[t].pc = "read_chunk"
    /\ \E k \in ReadCounts(ChunkSize(rt[t].remaining)) :
         LET chunk == SubSeq(wire, 1, k) IN
         /\ rpos' = rpos + k
         /\ IF EmptyChunk(chunk)
            THEN AfterPayload(t, rt[t])
            ELSE PayloadLoop(t, [rt[t] EXCEPT !.jpeg_data = @ \o chunk,
                                              !.remaining = @ - Len(chunk)])
    /\ UNCHANGED <<receiver_thread, g_pc, nthreads, svars, lvars, displayed, tvars>>

\* lines 51, 63, 89-95: a read raises SerialException (device gone); the
\* handler emits error_occurred("Serial error: ...")
RReadFail(t) ==
    /\ rt[t].pc \in {"read_hdr", "read_chunk"}
    /\ SetT(t, LeaveRun(rt[t]))
    /\ errq' = Append(errq, "Serial error")
    /\ UNCHANGED <<receiver_thread, g_pc, nthreads, handed, frames_out, fps_out, rpos,
                   svars, lvars, displayed, tvars>>

\* lines 51, 63, 91-95: the open or a read raises an exception that is no
\* SerialException; the handler emits error_occurred("Unexpected error: ...")
RUnexpected(t) ==
    /\ rt[t].pc \in {"open", "read_hdr", "read_chunk"}
    /\ SetT(t, LeaveRun(rt[t]))
    /\ errq' = Append(errq, "Unexpected error")
    /\ UNCHANGED <<receiver_thread, g_pc, nthreads, handed, frames_out, fps_out, rpos,
                   svars, lvars, displayed, tvars>>

\* ---- receiver controller: MainWindow -----------------------------------------
\* lines 269-273: create and start a FrameReceiverThread
connect_to_port ==
    /\ nthreads' = nthreads + 1
    /\ receiver_thread' = nthreads + 1
    /\ SetT(nthreads + 1, [NewThread EXCEPT !.pc = "open"])
    /\ UNCHANGED g_pc

\* a wait that gives up after a while
Finished_or_timeout(t) == TRUE

\* line 100: QThread.wait() returns once run() of the thread has returned
Finished(t) == rt[t].pc = "done"

\* the GUI thread inside stop(), called from a handler that leaves it at next_pc
WaitPc(next_pc) == IF next_pc = "closed" THEN "closing" ELSE "waiting"

\* lines 287-289, 97-100: receiver_thread.stop(): running = False, then wait();
\* wait() returns at once when run() has already returned, and then
\* receiver_thread = None; the calling handler leaves the GUI thread at next_pc
disconnect_port(next_pc) ==
    IF receiver_thread # 0
    THEN /\ SetT(receiver_thread, [rt[receiver_thread] EXCEPT !.running = FALSE])
         /\ IF Finished(receiver_thread)
            THEN receiver_thread' = 0 /\ g_pc' = next_pc
            ELSE g_pc' = WaitPc(next_pc) /\ UNCHANGED receiver_thread
         /\ UNCHANGED nthreads
    ELSE /\ g_pc' = next_pc
         /\ UNCHANGED <<rt, receiver_thread, nthreads>>

\* lines 100, 289: wait() returns once run() has returned; receiver_thread = None
WaitReturn ==
    /\ g_pc \in {"waiting", "closing"}
    /\ Finished(receiver_thread)
    /\ receiver_thread' = 0
    /\ g_pc' = IF g_pc = "closing" THEN "closed" ELSE "idle"
    /\ UNCHANGED <<rt, nthreads, errq, handed, frames_out, fps_out, rpos, svars, lvars,
                   displayed, tvars>>

\* lines 253-258
toggle_connection ==
    /\ g_pc = "idle"
    /\ IF receiver_thread # 0 /\ rt[receiver_thread].running
       THEN disconnect_port("idle")
       ELSE nthreads < MaxThreads /\ connect_to_port
    /\ UNCHANGED <<errq, handed, frames_out, fps_out, rpos, svars, lvars, displayed, tvars>>

\* lines 376-383: the user closes the window
closeEvent ==
    /\ g_pc = "idle"
    /\ disconnect_port("closed")
    /\ UNCHANGED <<errq, handed, frames_out, fps_out, rpos, svars, lvars, displayed, tvars>>

\* every reported error treated as a connection error
IsConnectionError_any(msg) == msg \in {"Serial error", "Error processing frame"}

\* line 327: "Serial error" in error_message
IsConnectionError(msg) == msg = "Serial error"

\* lines 322-328: slot of error_occurred, run by the GUI thread
handle_error ==
    /\ g_pc = "idle"
    /\ errq # <<>>
    /\ errq' = Tail(errq)
    /\ IF IsConnectionError(Head(errq))
       THEN disconnect_port("idle")
       ELSE UNCHANGED <<rt, receiver_thread, g_pc, nthreads>>
    /\ UNCHANGED <<handed, frames_out, fps_out, rpos, svars, lvars, displayed, tvars>>

\* lines 302-316: slot of frame_received, run by the GUI thread for the oldest
\* signal not yet delivered (line 271 connects it across threads: the signals
\* wait in the event queue of the GUI thread)
update_frame ==
    /\ g_pc = "idle"
    /\ displayed < Len(frames_out)
    /\ displayed' = displayed + 1
    /\ UNCHANGED <<rt, receiver_thread, g_pc, nthreads, errq, handed, frames_out,
                   fps_out, rpos, svars, lvars, tvars>>

\* ---- time ------------------------------------------------------------------------
\* d ticks pass on the sending machine
STick(d) ==
    /\ s_now + d <= MaxTime
    /\ s_now' = s_now + d
    /\ UNCHANGED <<svars, lvars, rvars, r_now>>

\* d ticks pass on the receiving machine
RTick(d) ==
    /\ r_now + d <= MaxTime
    /\ r_now' = r_now + d
    /\ UNCHANGED <<svars, lvars, rvars, s_now>>

\* ---- specifications ------------------------------------------------------------
InitLink == tx = <<>> /\ sent = <<>> /\ rpos = 0 /\ s_now = 0 /\ r_now = 0

InitReceiver ==
    /\ rt = [t \in RThreads |-> NewThread]
    /\ receiver_thread = 0
    /\ g_pc = "idle"
    /\ nthreads = 0
    /\ errq = <<>>
    /\ handed = <<>>
    /\ frames_out = <<>>
    /\ fps_out = <<>>
    /\ displayed = 0

\* rpi_screen_sender.py started without Tk (cli_main, lines 305-309): running is
\* set and sender_loop runs in the main thread; the receiver window is open
Init ==
    /\ running = TRUE
    /\ thread = 0
    /\ wk = [w \in Workers |-> IF w = 1 THEN [NewWorker EXCEPT !.pc = "open"]
                                        ELSE NewWorker]
    /\ frames_sent = 0
    /\ c_pc = "idle"
    /\ nstarted = 0
    /\ InitLink
    /\ InitReceiver

\* one receiver session: the user connects once and may stop it while it runs
UserConnect == nthreads = 0 /\ toggle_connection
UserStop == receiver_thread # 0 /\ rt[receiver_thread].running /\ toggle_connection

SenderStep(w, images) ==
    \/ SOpenOk(w) \/ SLoop(w) \/ SCapture(w, images) \/ SWriteHdr(w)
    \/ SWritePayload(w) \/ SFlush(w)

ReceiverStep(t) ==
    \/ ROpenOk(t) \/ ROpenFail(t) \/ RSetRunning(t) \/ RLoop(t) \/ RReadHdr(t)
    \/ RReadChunk(t) \/ RReadFail(t)

Next ==
    \/ SenderStep(1, Payloads)
    \/ \E t \in RThreads : ReceiverStep(t)
    \/ UserConnect
    \/ UserStop
    \/ WaitReturn
    \/ handle_error

Spec == Init /\ [][Next]_vars

\* rpi_screen_sender.py with the Tk window (gui_main): the user toggles sending
SenderInit ==
    /\ running = FALSE
    /\ thread = 0
    /\ wk = [w \in Workers |-> NewWorker]
    /\ frames_sent = 0
    /\ c_pc = "idle"
    /\ nstarted = 0
    /\ InitLink
    /\ InitReceiver

\* the sender's lifecycle does not look into the payload: images of every
\* length, all of one colour
Plain == {p \in Payloads : \A i \in 1..Len(p) : p[i] = 1}

SenderNext ==
    \/ \E w \in Workers :
         \/ SenderStep(w, Plain)
         \/ SOpenFail(w)
         \/ SFail(w)
         \/ SFinally(w)
    \/ toggle_sending
    \/ StopJoin
    \/ HostRead

SenderSpec == SenderInit /\ [][SenderNext]_vars

\* one sender session: the user starts sending once and may stop it
UserStart == nstarted = 0 /\ toggle_sending
UserStopSending == running /\ toggle_sending

SessionNext ==
    \/ \E w \in Workers :
         \/ SenderStep(w, Plain)
         \/ SOpenFail(w)
         \/ SFail(w)
         \/ SFinally(w)
    \/ UserStart
    \/ UserStopSending
    \/ StopJoin
    \/ HostRead

SessionSpec == SenderInit /\ [][SessionNext]_vars

\* a screen that shows one picture
Picture == {p \in Plain : Len(p) = 1}

\* both programs from start to end: one sender session and one receiver
\* session, each stopped by its user, by a failure or by closing the window
LifeNext ==
    \/ \E w \in Workers :
         \/ SenderStep(w, Picture)
         \/ SOpenFail(w)
         \/ SFail(w)
         \/ SFinally(w)
    \/ UserStart
    \/ UserStopSending
    \/ StopJoin
    \/ \E t \in RThreads : ReceiverStep(t) \/ RUnexpected(t)
    \/ UserConnect
    \/ UserStop
    \/ WaitReturn
    \/ handle_error
    \/ closeEvent

LifeSpec == SenderInit /\ [][LifeNext]_vars

\* the receiver window through its whole life: the user connects, stops and
\* reconnects at will and closes the window.  The cli sender has sent its
\* first frame (lines 105-146 run once) and is back at line 120
WindowInit ==
    /\ running = TRUE
    /\ thread = 0
    /\ wk = [w \in Workers |->
                IF w = 1 THEN [NewWorker EXCEPT !.pc = "loop", !.ser = "open",
                                                !.jpeg = <<1>>, !.frame_start = 0]
                         ELSE NewWorker]
    /\ frames_sent = 1
    /\ c_pc = "idle"
    /\ nstarted = 0
    /\ tx = pack(1) \o <<1>>
    /\ sent = << <<1>> >>
    /\ rpos = 0
    /\ s_now = sleep_time(0)
    /\ r_now = 0
    /\ InitReceiver

WindowNext ==
    \/ \E t \in RThreads : ReceiverStep(t) \/ RUnexpected(t)
    \/ toggle_connection
    \/ closeEvent
    \/ WaitReturn
    \/ handle_error
    \/ update_frame

WindowSpec == WindowInit /\ [][WindowNext]_vars

\* the stream on its way to the screen: the sender streams one picture, the
\* user connects once, the window shows what arrives
ViewNext ==
    \/ SenderStep(1, Picture)
    \/ \E t \in RThreads : ReceiverStep(t)
    \/ UserConnect
    \/ handle_error
    \/ update_frame

ViewSpec == Init /\ [][ViewNext]_vars

\* the sender loop against its clock: the cli sender streams one picture
\* while time passes tick by tick on the sending machine
PaceNext ==
    \/ SenderStep(1, Picture)
    \/ HostRead
    \/ STick(1)

PaceSpec == Init /\ [][PaceNext]_vars

\* the receiver against its clock: one session receives the pictures while
\* time passes in half seconds on the receiving machine
HalfSecond == OneSecond \div 2

RateNext ==
    \/ SenderStep(1, Picture)
    \/ \E t \in RThreads : ReceiverStep(t)
    \/ UserConnect
    \/ handle_error
    \/ RTick(HalfSecond)

RateSpec == Init /\ [][RateNext]_vars

\* ---- properties -------------------------------------------------------------------
\* offset in the stream at which the i-th envelope ends (the link carries the
\* envelopes of one sender, one after the other)
RECURSIVE EnvEnd(_)
EnvEnd(i) == IF i = 0 THEN 0 ELSE EnvEnd(i - 1) + 4 + Len(sent[i])

\* the thread waits for a header and nobody asked it to stop
AwaitingHeader(t) == rt[t].pc \in {"loop", "read_hdr"} /\ rt[t].running

\* C1: chunked-read equivalence.  However the reads split the stream, once a
\* running receiver is back at the head of its loop and has read all bytes of
\* the i-th envelope, it has emitted that envelope as its i-th frame, with the
\* length and the bytes the whole envelope carries.
C1_ChunkedReadEquivalence ==
    \A t \in RThreads : \A i \in 1..Len(sent) :
        (AwaitingHeader(t) /\ rpos >= EnvEnd(i))
            => /\ Len(handed) >= i
               /\ handed[i].size = Len(sent[i])
               /\ handed[i].data = sent[i]

\* C2: partial-header non-advancement.  The length the receiver accumulates a
\* payload for is decoded from the 4 consecutive stream bytes that begin where
\* it started to wait for that header: bytes of a header that arrived before a
\* read timeout are kept.
C2_PartialHeaderKept ==
    \A t \in RThreads :
        rt[t].pc = "read_chunk"
            => rt[t].frame_size =
                   unpack(SubSeq(tx, rt[t].hstart + 1, rt[t].hstart + 4))

\* C3: in-order lossless delivery.  The frames the receiver completes are the
\* payloads the sender wrote, in the order written, and once a running
\* receiver has read everything the sender wrote there is one frame per
\* payload.
C3_InOrderLossless ==
    /\ Len(handed) <= Len(sent)
    /\ \A i \in 1..Len(handed) :
           i <= Len(sent) => handed[i].data = sent[i] /\ handed[i].size = Len(sent[i])
    /\ \A t \in RThreads :
           (AwaitingHeader(t) /\ Len(tx) = EnvEnd(Len(sent)) /\ rpos = Len(tx))
               => Len(handed) = Len(sent)

\* C4: oversized-length rejection.  The receiver never accumulates a payload
\* for a declared length above the maximum payload length (here 16 MiB).
C4_OversizedRejected ==
    \A t \in RThreads :
        rt[t].pc = "read_chunk" => rt[t].frame_size <= 256 * 256 * 256

\* C5: short-read retry.  A chunk read that returns no byte and no error,
\* while no stop was requested, leaves the receiver waiting for the same
\* payload with the bytes it has.
C5_ShortReadRetries ==
    [][\A t \in RThreads :
          (/\ rt[t].pc = "read_chunk"
           /\ rt[t].running
           /\ rt'[t] # rt[t]
           /\ rt'[t].running
           /\ rpos' = rpos
           /\ errq' = errq)
              => /\ rt'[t].pc = "read_chunk"
                 /\ rt'[t].frame_size = rt[t].frame_size
                 /\ rt'[t].jpeg_data = rt[t].jpeg_data]_vars

\* C6: partial frames are never surfaced.  Every payload handed to the decoder
\* has exactly the length its header declared and consists of the bytes that
\* follow that header in the stream; every emitted frame is such a payload.
C6_NoPartialFrame ==
    /\ \A i \in 1..Len(handed) :
           /\ Len(handed[i].data) = handed[i].size
           /\ handed[i].data =
                  SubSeq(tx, handed[i].pos + 5, handed[i].pos + 4 + handed[i].size)
    /\ \A j \in 1..Len(frames_out) :
           \E i \in 1..Len(handed) :
               handed[i].pos = frames_out[j].pos /\ handed[i].data = frames_out[j].data

\* a payload was abandoned part-way (timeout or stop) and was not handed on,
\* and another one was completed and handed on
C6_Witness ==
    \E t \in RThreads :
        /\ rt[t].pc \in {"loop", "done"}
        /\ Len(rt[t].jpeg_data) > 0
        /\ Len(rt[t].jpeg_data) < rt[t].frame_size
        /\ handed # <<>>
        /\ \A i \in 1..Len(handed) : handed[i].pos # rt[t].hpos

\* C7: envelope round trip.  Every envelope the sender wrote is 4 + len(P)
\* bytes, the length first and most significant byte first, then P; a header
\* the receiver read at the start of an envelope gives back exactly P.
C7_EnvelopeRoundTrip ==
    /\ (\A w \in Workers : wk[w].pc # "write_payload") => Len(tx) = EnvEnd(Len(sent))
    /\ \A i \in 1..Len(sent) :
           LET s == EnvEnd(i - 1)
               n == Len(sent[i])
           IN  Len(tx) >= s + 4 + n =>
               /\ \A j \in 1..4 : tx[s + j] \in 0..255
               /\ tx[s + 1] * 16777216 + tx[s + 2] * 65536 + tx[s + 3] * 256 + tx[s + 4] = n
               /\ SubSeq(tx, s + 5, s + 4 + n) = sent[i]
    /\ \A k \in 1..Len(handed) : \A i \in 1..Len(sent) :
           handed[k].pos = EnvEnd(i - 1)
               => handed[k].size = Len(sent[i]) /\ handed[k].data = sent[i]

\* the receiver gave back a payload of two bytes that the sender had enveloped
C7_Witness ==
    \E k \in 1..Len(handed) : \E i \in 1..Len(sent) :
        /\ handed[k].pos = EnvEnd(i - 1)
        /\ Len(sent[i]) = 2
        /\ handed[k].data = sent[i]

\* C8: decode-failure recovery.  When the decoder rejects a complete payload,
\* the receiver emits one "Error processing frame" report and no frame, does
\* not count it, stays running with the port open, and stands at the first
\* byte after that envelope; the window's error handler leaves the thread
\* alone for such a report; and every frame emitted comes from a payload the
\* decoder accepts, equal to the sender's payload when its header was read at
\* the start of an envelope.
C8_DecodeFailureRecovery ==
    /\ [](\A j \in 1..Len(frames_out) :
             /\ ValidImage(frames_out[j].data)
             /\ \A i \in 1..Len(sent) :
                    frames_out[j].pos = EnvEnd(i - 1) => frames_out[j].data = sent[i])
    /\ [][/\ \A t \in RThreads :
               (/\ rt'[t] # rt[t]
                /\ Len(handed') = Len(handed) + 1
                /\ ~ValidImage(handed'[Len(handed')].data))
                   => /\ errq' = Append(errq, "Error processing frame")
                      /\ frames_out' = frames_out
                      /\ rt'[t].frames_received = rt[t].frames_received
                      /\ rt'[t].running = rt[t].running
                      /\ rt'[t].port = "open"
                      /\ rt'[t].pc = "loop"
                      /\ rpos' = handed'[Len(handed')].pos + 4 + handed'[Len(handed')].size
          /\ (errq # <<>> /\ errq' = Tail(errq) /\ Head(errq) = "Error processing frame")
                 => UNCHANGED <<rt, receiver_thread, g_pc>>]_vars

\* a payload of garbage bytes was reported and the report handled, and the
\* envelope after it was decoded and emitted by the still running thread
C8_Witness ==
    /\ Len(handed) = 2
    /\ handed[1].size > 0
    /\ ~ValidImage(handed[1].data)
    /\ handed[2].pos = handed[1].pos + 4 + handed[1].size
    /\ Len(sent) = 2
    /\ handed[2].data = sent[2]
    /\ frames_out = <<[pos |-> handed[2].pos, data |-> sent[2]]>>
    /\ errq = <<>>
    /\ receiver_thread # 0
    /\ rt[receiver_thread].running
    /\ rt[receiver_thread].port = "open"

\* C9: sender open failure returns to Stopped.  When the worker returns from
\* sender_loop because the port could not be opened, running is false.
C9_OpenFailureStops ==
    [][\A w \in Workers :
          (wk[w].pc = "open" /\ wk'[w].pc = "done") => ~running']_vars

\* C10: sender shutdown joins the worker.  When stop() returns, the worker it
\* joined has left sender_loop and its port is not open.
C10_StopJoinsWorker ==
    [][(c_pc = "joining" /\ c_pc' = "idle")
          => wk[thread].pc = "done" /\ wk[thread].ser # "open"]_vars

\* C11: receiver fatal errors reach the controller.  When the window handles
\* the report of a fatal condition of the worker (the port could not be
\* opened, a read failed, another exception left the loop), disconnect_port
\* runs: the window is Disconnected, or on its way there inside stop().
C11_FatalErrorDisconnects ==
    [][(/\ errq # <<>>
        /\ errq' = Tail(errq)
        /\ Head(errq) \in {"Serial error", "Unexpected error"})
           => (receiver_thread' = 0 \/ g_pc' = "waiting")]_vars

\* C12: timeout-driven stop.  A thread told to stop while it waits for a
\* header on an idle stream does at most one more header read: a header read
\* that times out takes it to the head of the loop with nothing consumed or
\* emitted, and from the head of the loop it leaves run() with its port
\* closed, so that wait() can return.
C12_TimeoutDrivenStop ==
    [][\A t \in RThreads :
          (~rt[t].running /\ rt'[t].pc # rt[t].pc)
              => /\ (rt[t].pc = "read_hdr" /\ wire = <<>> /\ errq' = errq)
                     => /\ rt'[t].pc = "loop"
                        /\ ~rt'[t].running
                        /\ rpos' = rpos
                        /\ handed' = handed
                 /\ rt[t].pc = "loop"
                     => /\ rt'[t].pc = "done"
                        /\ rt'[t].port = "closed"
                        /\ rpos' = rpos
                        /\ Finished(t)']_vars

\* the window waits inside stop() for a thread that was stopped on an idle
\* stream and has left run() through the loop test, its port closed
C12_Witness ==
    /\ g_pc = "waiting"
    /\ wire = <<>>
    /\ errq = <<>>
    /\ rt[receiver_thread].pc = "done"
    /\ rt[receiver_thread].port = "closed"
    /\ rt[receiver_thread].hstart = Len(tx)

\* C13: sender write failure is fatal.  A header write, payload write or
\* flush that fails takes the worker to its finally clause with nothing
\* written; from there the worker only closes its port and clears running,
\* and a worker that has left sender_loop does nothing more: no byte follows
\* on that port, whatever part of an envelope was written.
C13_WriteFailureFatal ==
    [][\A w \in Workers :
          /\ (/\ wk[w].pc \in {"write_hdr", "write_payload", "flush"}
              /\ wk'[w].pc # wk[w].pc
              /\ wk[w].pc = "write_hdr" => tx' = tx
              /\ wk[w].pc = "write_payload" => wk'[w].pc # "flush"
              /\ wk[w].pc = "flush" => frames_sent' # frames_sent + 1)
                 => wk'[w].pc = "finally" /\ tx' = tx
          /\ (wk[w].pc = "finally" /\ wk'[w] # wk[w])
                 => /\ wk'[w].pc = "done"
                    /\ wk'[w].ser = "closed"
                    /\ ~running'
                    /\ tx' = tx
          /\ wk[w].pc = "done" => wk'[w] = wk[w]]_vars

\* the only session wrote the header of a picture and not its payload, closed
\* its port and cleared running
C13_Witness ==
    /\ nstarted = 1
    /\ wk[1].pc = "done"
    /\ wk[1].ser = "closed"
    /\ ~running
    /\ Len(sent) = 1
    /\ Len(sent[1]) > 0
    /\ Len(tx) = 4

\* C14: writer ordering.  A worker enters the payload write by writing its
\* header and leaves it by writing the whole payload; as long as it stands
\* between the two (with a payload of at least one byte) nothing is written
\* to the port: no byte of another frame comes between header and payload.
C14_WriterOrdering ==
    [][\A w \in Workers :
          /\ (wk[w].pc = "write_hdr" /\ wk'[w].pc = "write_payload")
                 => tx' = tx \o pack(Len(wk[w].jpeg))
          /\ (wk[w].pc = "write_payload" /\ wk'[w].pc = "flush")
                 => tx' = tx \o wk[w].jpeg
          /\ (wk[w].pc = "write_payload" /\ wk'[w].pc = "write_payload"
                                         /\ wk[w].jpeg # <<>>)
                 => tx' = tx]_vars

\* C15: pacing bound.  The sleep that ends a cycle of duration d lasts
\* FRAME_INTERVAL - d when d < FRAME_INTERVAL and nothing otherwise, and a
\* cycle starts at least FRAME_INTERVAL after the start of the cycle before.
C15_PacingBound ==
    [][\A w \in Workers :
          /\ (wk[w].pc = "flush" /\ wk'[w].pc = "loop")
                 => LET d == s_now - wk[w].frame_start IN
                    s_now' - s_now = IF d < FRAME_INTERVAL THEN FRAME_INTERVAL - d
                                                           ELSE 0
          /\ (wk[w].pc = "loop" /\ wk'[w].pc = "capture" /\ wk[w].frame_start >= 0)
                 => wk'[w].frame_start - wk[w].frame_start >= FRAME_INTERVAL]_vars

\* a third cycle has begun, more than an interval after the second, which
\* began more than an interval after the start
C15_Witness ==
    /\ wk[1].pc = "capture"
    /\ frames_sent = 2
    /\ wk[1].frame_start > 2 * FRAME_INTERVAL + 1

\* C16: the receiver rate window is rolling.  Every rate sample after the
\* first equals the frames emitted since the sample before it, divided by the
\* time since that sample.
C16_RollingRate ==
    \A j \in 2..Len(fps_out) :
        LET a == fps_out[j - 1]
            b == fps_out[j]
        IN  a.thread = b.thread
                => b.fps.frames * (b.at - a.at) = (b.seq - a.seq) * b.fps.elapsed

\* C17: sender stop is never starved.  A worker that was told to stop and
\* stands in a write to the port can always come out of it by a step of its
\* own: the write returns or is given up, whatever the peer does.
C17_StopNeverStarved ==
    \A w \in Workers :
        (~running /\ wk[w].pc \in {"write_hdr", "write_payload"})
            => ENABLED (SWriteHdr(w) \/ SWritePayload(w))

\* C18: receiver stop terminates under every interleaving.  While the window
\* is inside stop() the running flag of the thread it stops stays false: the
\* request is not overwritten, whatever line of run() the thread was at.
C18_StopNeverLost ==
    g_pc \in {"waiting", "closing"} => ~rt[receiver_thread].running

\* C19: receiver shutdown joins the worker.  When stop() returns (the window
\* drops its receiver_thread), that thread has left run() and its port is not
\* open.
C19_StopReturnsAfterWorker ==
    [][(receiver_thread # 0 /\ receiver_thread' = 0)
          => /\ rt'[receiver_thread].pc = "done"
             /\ rt'[receiver_thread].port # "open"]_vars

\* stop() has returned for the last session, which had its port open, and the
\* window is ready to connect again
C19_Witness ==
    /\ receiver_thread = 0
    /\ g_pc = "idle"
    /\ nthreads > 0
    /\ nthreads < MaxThreads
    /\ rt[nthreads].pc = "done"
    /\ rt[nthreads].port = "closed"

\* C20: no frame backlog.  At most one emitted frame waits for update_frame.
C20_NoFrameBacklog == Len(frames_out) - displayed <= 1

\* C21: receiver rate samples are at least one second apart.  Within one
\* session the first fps_update comes a second or more after the counters
\* were started and every later one a second or more after the one before,
\* and fps_update is emitted only in a step that emitted a decoded frame.
C21_SamplesOneSecondApart ==
    /\ [](\A j \in 1..Len(fps_out) :
             /\ fps_out[j].at - rt[fps_out[j].thread].start_time >= OneSecond
             /\ \A i \in 1..(j - 1) :
                    fps_out[i].thread = fps_out[j].thread
                        => fps_out[j].at - fps_out[i].at >= OneSecond)
    /\ [][fps_out' # fps_out
             => /\ Len(frames_out') = Len(frames_out) + 1
                /\ fps_out'[Len(fps_out')].seq = Len(frames_out')
                /\ fps_out'[Len(fps_out')].at = r_now]_vars

\* a session emitted a rate sample with each of two frames, the second frame
\* having come a second or more after the first
C21_Witness ==
    /\ Len(fps_out) = 2
    /\ fps_out[1].thread = fps_out[2].thread
    /\ fps_out[2].seq = fps_out[1].seq + 1

\* C24: no leaked handle.  A sender worker that has left sender_loop and a
\* receiver thread that has left run() hold no open port: the port each
\* opened is closed, on whatever path it left.
C24_NoLeakedHandle ==
    /\ \A w \in Workers : wk[w].pc = "done" => wk[w].ser # "open"
    /\ \A t \in RThreads : rt[t].pc = "done" => rt[t].port # "open"

\* a sender worker and a receiver thread have both ended after a session in
\* which a frame went from one to the other, and their ports are closed
C24_Witness ==
    /\ \E w \in Workers : wk[w].pc = "done" /\ wk[w].ser = "closed"
    /\ \E t \in RThreads : rt[t].pc = "done" /\ rt[t].port = "closed"
    /\ frames_out # <<>>

\* C22: single sender worker.  At most one worker stands inside the body of
\* the sender loop (capture, write, flush) with its port open.
C22_SingleSenderWorker ==
    LET sending == {w \in Workers :
                       /\ wk[w].ser = "open"
                       /\ wk[w].pc \in {"capture", "write_hdr", "write_payload",
                                        "flush"}}
    IN  Cardinality(sending) <= 1

\* C23: single receiver worker.  At most one FrameReceiverThread is inside
\* run(), and a thread inside run() is the one MainWindow.receiver_thread
\* refers to.
C23_SingleReceiverWorker ==
    LET alive == {t \in RThreads : rt[t].pc \notin {"unborn", "done"}}
    IN  /\ Cardinality(alive) <= 1
        /\ \A t \in alive : receiver_thread = t

TypeOK ==
    /\ running \in BOOLEAN
    /\ thread \in 0..MaxWorkers
    /\ c_pc \in {"idle", "joining"}
    /\ g_pc \in {"idle", "waiting", "closing", "closed"}
    /\ displayed \in 0..Len(frames_out)
    /\ s_now \in Nat
    /\ r_now \in Nat
    /\ rpos \in 0..Len(tx)
    /\ receiver_thread \in 0..MaxThreads

====
